---- MODULE Spec2Model ----
(***************************************************************************)
(* Model of the lead-status state machine of outreach-mas:                 *)
(* agents/orchestrator.py (OrchestratorAgent) with the three agents it     *)
(* calls (EmailCraftingAgent, SendingAgent, FollowUpAgent).                *)
(*                                                                         *)
(* One process runs at a time.  A run is: __init__ (load the state file),  *)
(* fetch_leads, _process_new_leads (Phase A), _process_follow_ups          *)
(* (Phase B), and the final save in run_workflow's finally clause.         *)
(* Each loop iteration is one action.  The environment decides what the    *)
(* external services answer (Gmail send, Gmail search, Gemini), whether a  *)
(* write of the state file succeeds, when the clock advances and when the  *)
(* process is killed.  bq_client only mirrors data to the warehouse: all   *)
(* its methods catch their exceptions and touch no state of the model.     *)
(***************************************************************************)
EXTENDS Integers, Sequences, FiniteSets, TLC

\* ---------------------------------------------------------------- bounds
Emails == {"a@x.com", "b@x.com"}
MaxLeads == 2
MaxTime == 1
\* config.follow_up_delay_hours (default 48), scaled to the model's clock
follow_up_delay == 1

\* ---------------------------------------------------------------- values
Statuses == {"PENDING", "INITIAL_EMAIL_SENT", "FOLLOW_UP_SENT", "REPLIED"}
TimestampFields ==
  {"initial_sent_timestamp", "follow_up_sent_timestamp", "replied_timestamp"}

\* a dict is a function on the set of its keys; {} is the empty function
EmptyDict == << >>
DictGet(d, k, default) == IF k \in DOMAIN d THEN d[k] ELSE default
DictSet(d, k, v) == [x \in (DOMAIN d) \cup {k} |-> IF x = k THEN v ELSE d[x]]

\* None, as json.load gives it for a JSON null and dict.get for a missing key
Null == [null |-> TRUE]
\* whether a stored value is a dict: None.get(...) raises AttributeError
IsDict(v) == v # Null

\* lead dicts as the Reconciler receives them: a validated row carries every
\* key; draft_initial_email also provides for a dict that lacks one
FullLead(e) == [firstName |-> "Ana", email |-> e, company |-> "Acme"]
NoCompanyLead(e) == [firstName |-> "Ana", email |-> e]
BadRowEmails == {"b@x.com"}
Leads == {FullLead(e) : e \in Emails} \cup {NoCompanyLead(e) : e \in BadRowEmails}
RECURSIVE SeqsUpTo(_, _)
SeqsUpTo(S, n) ==
  IF n = 0 THEN {<< >>}
  ELSE LET shorter == SeqsUpTo(S, n - 1)
       IN  shorter \cup {Append(s, x) : s \in {t \in shorter : Len(t) = n - 1}, x \in S}
LeadLists == SeqsUpTo(Leads, MaxLeads)

\* datetime.isoformat() / datetime.fromisoformat(): the stored value is a
\* string, not a time; parsing gives the time back or raises ValueError
ValueError == -1
isoformat(t) == [iso |-> t]
\* a slip: a text that is no ISO-8601 value is read as time 0
fromisoformat_lenient(s) == IF "iso" \in DOMAIN s THEN s.iso ELSE 0
fromisoformat(s) == IF "iso" \in DOMAIN s THEN s.iso ELSE ValueError

\* ----------------------------------------------- lead_status (a dict of dicts)
\* insertion-ordered, as a Python dict: a sequence of (email, data) items
HasKey(ls, e) == \E n \in 1..Len(ls) : ls[n].email = e
IndexOf(ls, e) == CHOOSE n \in 1..Len(ls) : ls[n].email = e
Get(ls, e) == IF HasKey(ls, e) THEN ls[IndexOf(ls, e)].data ELSE EmptyDict
Keys(ls) == [n \in 1..Len(ls) |-> ls[n].email]
StatusOf(ls, e) == DictGet(Get(ls, e), "status", "PENDING")
HasField(ls, e, f) == f \in DOMAIN Get(ls, e)

\* a slip: every status writes initial_sent_timestamp
TimestampKey_initial(status) ==
  IF status \in {"INITIAL_EMAIL_SENT", "FOLLOW_UP_SENT", "REPLIED"}
  THEN {"initial_sent_timestamp"} ELSE {}

\* the timestamp key that _update_lead_status writes for a status
TimestampKey(status) ==
  CASE status = "INITIAL_EMAIL_SENT" -> {"initial_sent_timestamp"}
    [] status = "FOLLOW_UP_SENT" -> {"follow_up_sent_timestamp"}
    [] status = "REPLIED" -> {"replied_timestamp"}
    [] OTHER -> {}

\* a slip: the status is set, the timestamp is forgotten
SetStatus_statusOnly(ls, email, status, timestamp) ==
  LET ls1 == IF HasKey(ls, email) THEN ls
             ELSE Append(ls, [email |-> email, data |-> EmptyDict])
      n == IndexOf(ls1, email)
  IN  [ls1 EXCEPT ![n].data = DictSet(ls1[n].data, "status", status)]

\* a slip: the mapping is replaced by the one record
SetStatus_single(ls, email, status, timestamp) ==
  <<[email |-> email,
     data |-> DictSet(DictSet(Get(ls, email), "status", status),
                      CHOOSE k \in TimestampKey(status) : TRUE, timestamp)]>>

\* a slip: the record is created anew on every update
SetStatus_resetRecord(ls, email, status, timestamp) ==
  LET ls1 == IF HasKey(ls, email) THEN ls
             ELSE Append(ls, [email |-> email, data |-> EmptyDict])
      n == IndexOf(ls1, email)
      d1 == DictSet(EmptyDict, "status", status)
      d2 == IF TimestampKey(status) = {} THEN d1
            ELSE DictSet(d1, CHOOSE k \in TimestampKey(status) : TRUE, timestamp)
  IN  [ls1 EXCEPT ![n].data = d2]

\* the in-memory part of _update_lead_status (lines 76-87)
SetStatus(ls, email, status, timestamp) ==
  LET ls1 == IF HasKey(ls, email) THEN ls
             ELSE Append(ls, [email |-> email, data |-> EmptyDict])
      n == IndexOf(ls1, email)
      d1 == DictSet(ls1[n].data, "status", status)
      d2 == IF TimestampKey(status) = {} THEN d1
            ELSE DictSet(d1, CHOOSE k \in TimestampKey(status) : TRUE, timestamp)
  IN  [ls1 EXCEPT ![n].data = d2]

\* ---------------------------------------------------------- the state file
NoFile == [kind |-> "missing", state |-> << >>]
CorruptFile == [kind |-> "corrupt", state |-> << >>]

\* json.dump(self.lead_status, f, indent=4, default=str): the text of the file.
\* The mapping is written as the list of its members in insertion order, a
\* record as a JSON object, a str as a JSON string, None as null
JsonNull == [json |-> "null"]
JsonString(v) == [json |-> "string", chars |-> v]
JsonObject(d) ==
  [json |-> "object",
   members |-> [k \in DOMAIN d |->
                  IF k # "status" /\ d[k] = Null THEN JsonNull ELSE JsonString(d[k])]]
json_dump(ls) ==
  [n \in 1..Len(ls) |->
     [name |-> ls[n].email,
      value |-> IF ls[n].data = Null THEN JsonNull ELSE JsonObject(ls[n].data)]]

\* a slip: load gives every record the three timestamp fields, None where unset
json_load_nullFill(text) ==
  [n \in 1..Len(text) |->
     [email |-> text[n].name,
      data |-> IF text[n].value.json = "null" THEN Null
               ELSE LET m == text[n].value.members
                    IN  [k \in (DOMAIN m) \cup TimestampFields |->
                           IF k \notin DOMAIN m THEN Null
                           ELSE IF m[k].json = "null" THEN Null ELSE m[k].chars]]]

\* json.load(f): an object gives a dict, a string a str, null gives None
json_load(text) ==
  [n \in 1..Len(text) |->
     [email |-> text[n].name,
      data |-> IF text[n].value.json = "null" THEN Null
               ELSE LET m == text[n].value.members
                    IN  [k \in DOMAIN m |->
                           IF m[k].json = "null" THEN Null ELSE m[k].chars]]]

JsonFile(ls) == [kind |-> "json", state |-> json_dump(ls)]

\* a slip: the error path gives a mapping that is not empty
_load_state_stale(file) ==
  IF file.kind = "json" THEN json_load(file.state)
  ELSE <<[email |-> "a@x.com", data |-> [status |-> "REPLIED"]]>>

\* _load_state: json.load of the file; FileNotFoundError, JSONDecodeError and
\* any other exception give {}
_load_state(file) == IF file.kind = "json" THEN json_load(file.state) ELSE << >>

\* _save_state: open(file, 'w') truncates the file, json.dump writes it; an
\* exception is logged and swallowed.  "ok": written in full; "open_fails":
\* open raised, the file is untouched; "write_fails": the write stopped after
\* the truncation, what is left is not valid JSON
SaveOutcomes == {"ok", "open_fails", "write_fails"}
_save_state(file, ls, outcome) ==
  CASE outcome = "ok" -> JsonFile(ls)
    [] outcome = "open_fails" -> file
    [] OTHER -> CorruptFile

\* ------------------------------------------------------------------ agents
None == [isNone |-> TRUE, subject |-> "", body |-> ""]
Draft(subject, body) == [isNone |-> FALSE, subject |-> subject, body |-> body]

\* EmailCraftingAgent.draft_initial_email: the template reads lead['company'],
\* lead['firstName'] and lead['email']; KeyError returns the "Error" dict
draft_initial_email(lead) ==
  IF {"company", "firstName", "email"} \subseteq DOMAIN lead
  THEN Draft("A Partnership in Storytelling", "Hi")
  ELSE Draft("Error", "Error drafting email")

\* EmailCraftingAgent.draft_follow_up_email: None without a model, on an empty
\* response and on any exception (also the KeyError of a missing lead key)
GeminiOutcomes == {"text", "empty", "error", "no_model"}
draft_follow_up_email(lead, gemini) ==
  IF gemini = "no_model" THEN None
  ELSE IF ~({"company", "firstName"} \subseteq DOMAIN lead) THEN None
  ELSE IF gemini # "text" THEN None
  ELSE IF "email" \notin DOMAIN lead THEN None
  ELSE Draft("Re: A Partnership in Storytelling", "bump")

\* the orchestrator's test of a draft (lines 125 and 186)
DraftUsable(draft) == ~draft.isNone /\ draft.subject # "" /\ draft.body # ""

\* a slip: an error of the API call is reported as a success
send_email_optimistic(gmail, recipient_email, subject, body) ==
  IF gmail = "no_service" THEN FALSE
  ELSE IF recipient_email = "" \/ subject = "" \/ body = "" THEN FALSE
  ELSE TRUE

\* SendingAgent.send_email: False without a service, with an empty parameter,
\* and on any exception of the API call
GmailOutcomes == {"sent", "http_error", "no_service"}
send_email(gmail, recipient_email, subject, body) ==
  IF gmail = "no_service" THEN FALSE
  ELSE IF recipient_email = "" \/ subject = "" \/ body = "" THEN FALSE
  ELSE gmail = "sent"

\* a slip: an error of the search is read as a reply
check_for_reply_errorIsReply(search, lead_email, after_timestamp) ==
  IF search = "no_service" THEN FALSE
  ELSE IF fromisoformat(after_timestamp) = ValueError THEN FALSE
  ELSE search \in {"found", "http_error"}

\* FollowUpAgent.check_for_reply: False without a service, on an unparsable
\* timestamp and on any exception of the search
SearchOutcomes == {"found", "none", "http_error", "no_service"}
check_for_reply(search, lead_email, after_timestamp) ==
  IF search = "no_service" THEN FALSE
  ELSE IF fromisoformat(after_timestamp) = ValueError THEN FALSE
  ELSE search = "found"

\* what became of the search of check_for_reply: it found a message, it found
\* none, or it failed (no service, unparsable timestamp, error of the API)
QueryOutcome(search, after_timestamp) ==
  IF search = "no_service" THEN "failed"
  ELSE IF fromisoformat(after_timestamp) = ValueError THEN "failed"
  ELSE IF search = "http_error" THEN "failed"
  ELSE IF search = "found" THEN "found"
  ELSE "empty"

\* a slip: > for >=
should_send_follow_up_strict(initial_email_sent_timestamp, current_time) ==
  IF fromisoformat(initial_email_sent_timestamp) = ValueError THEN FALSE
  ELSE current_time > fromisoformat(initial_email_sent_timestamp) + follow_up_delay

\* FollowUpAgent.should_send_follow_up: current_time >= sent_time + delay
should_send_follow_up(initial_email_sent_timestamp, current_time) ==
  IF fromisoformat(initial_email_sent_timestamp) = ValueError THEN FALSE
  ELSE current_time >= fromisoformat(initial_email_sent_timestamp) + follow_up_delay

\* a slip: a lead that is not found is replaced by the first lead of the list
LeadIndex_first(leads, email) ==
  IF \E n \in 1..Len(leads) : leads[n].email = email
  THEN CHOOSE n \in 1..Len(leads) :
         /\ leads[n].email = email
         /\ \A m \in 1..(n - 1) : leads[m].email # email
  ELSE 1

\* next((l for l in all_leads if l['email'] == email), None)
LeadIndex(leads, email) ==
  IF \E n \in 1..Len(leads) : leads[n].email = email
  THEN CHOOSE n \in 1..Len(leads) :
         /\ leads[n].email = email
         /\ \A m \in 1..(n - 1) : leads[m].email # email
  ELSE 0

\* ------------------------------------------------------------------- state
VARIABLES
  file,          \* database/lead_status.json
  now,           \* the UTC clock, in hours
  pc,            \* "idle" (no process), "A", "B"
  lead_status,   \* self.lead_status of the running process
  all_leads,     \* the list fetch_leads returned to this run
  i,             \* position of Phase A in all_leads
  items,         \* list(self.lead_status.items()) of Phase B, as its keys
  j,             \* position of Phase B in items
  recording,     \* whether this behaviour keeps the two histories below
  detail,        \* whether last keeps what became of the reply query
  initial_sent,  \* history: addresses the mail system accepted an initial email for
  terminal_seen, \* history: addresses whose record was FOLLOW_UP_SENT or REPLIED
  run_log,       \* history of this run: what was done for which address
  last,          \* history: the last loop iteration
  other          \* a second process of the program, while the first one runs

vars == <<file, now, pc, lead_status, all_leads, i, items, j,
          recording, detail, initial_sent, terminal_seen, run_log, last, other>>

NoStep == [op |-> "none", email |-> "", before |-> "PENDING",
           record |-> EmptyDict, raised |-> FALSE, saved |-> "none",
           composed |-> "none", delivery |-> "none",
           reply |-> "none", due |-> "none", query |-> "none"]
EmptyLog == [initial_ok |-> {}, replied |-> {}, follow_up_composed |-> {}]

IsTerminal(status) == status \in {"FOLLOW_UP_SENT", "REPLIED"}

\* the memory of a process that is not running
NoProcess == [pc |-> "idle", lead_status |-> << >>, all_leads |-> << >>, i |-> 0,
              items |-> << >>, j |-> 0, run_log |-> EmptyLog, last |-> NoStep]

Start ==
  /\ now = 0
  /\ pc = "idle"
  /\ lead_status = << >>
  /\ all_leads = << >>
  /\ i = 0
  /\ items = << >>
  /\ j = 0
  /\ initial_sent = {}
  /\ terminal_seen = {}
  /\ run_log = EmptyLog
  /\ last = NoStep
  /\ other = NoProcess

Init == Start /\ file = NoFile /\ recording = FALSE /\ detail = FALSE
InitHistory == Start /\ file = NoFile /\ recording = TRUE /\ detail = FALSE

\* state files this program did not write: json.load accepts any JSON object.
\* A record without its timestamp, a record that is null and a record whose
\* timestamp is no ISO-8601 text, each next to a record as the program writes it
EditedFiles ==
  {JsonFile(<<[email |-> "a@x.com", data |-> [status |-> "INITIAL_EMAIL_SENT"]],
              [email |-> "b@x.com",
               data |-> [status |-> "INITIAL_EMAIL_SENT",
                         initial_sent_timestamp |-> isoformat(0)]]>>),
   JsonFile(<<[email |-> "b@x.com",
               data |-> [status |-> "INITIAL_EMAIL_SENT",
                         initial_sent_timestamp |-> isoformat(0)]],
              [email |-> "a@x.com", data |-> Null]>>),
   JsonFile(<<[email |-> "a@x.com",
               data |-> [status |-> "INITIAL_EMAIL_SENT",
                         initial_sent_timestamp |-> [text |-> "soon"]]],
              [email |-> "b@x.com",
               data |-> [status |-> "INITIAL_EMAIL_SENT",
                         initial_sent_timestamp |-> isoformat(0)]]>>)}
InitEdited == Start /\ file \in EditedFiles /\ recording = FALSE /\ detail = FALSE
InitDetail == Start /\ file \in EditedFiles /\ recording = FALSE /\ detail = TRUE

\* the process is gone: its memory is gone with it
ProcessGone ==
  /\ pc' = "idle"
  /\ lead_status' = << >>
  /\ all_leads' = << >>
  /\ i' = 0
  /\ items' = << >>
  /\ j' = 0
  /\ run_log' = EmptyLog

\* ----------------------------------------------------------------- actions
\* slips: the status test is missing, or excludes REPLIED only
IsPending_any(status) == TRUE
IsPending_unlessReplied(status) == status # "REPLIED"

\* line 118: only a lead without a stored status is new
IsPending(status) == status = "PENDING"

\* a slip: Phase B also takes the records in FOLLOW_UP_SENT
NeedsReconcile_anySent(data) ==
  DictGet(data, "status", "None") \in {"INITIAL_EMAIL_SENT", "FOLLOW_UP_SENT"}

\* line 155: Phase B handles the records in INITIAL_EMAIL_SENT only
NeedsReconcile(data) == DictGet(data, "status", "None") = "INITIAL_EMAIL_SENT"

\* a slip: the test of the timestamp is missing
HasTimestamp_unchecked(data) == TRUE

\* lines 161-162: data.get('initial_sent_timestamp') must be there
HasTimestamp(data) == DictGet(data, "initial_sent_timestamp", Null) # Null

\* a slip: the continue is missing
ProceedToFollowUp_always(replied) == TRUE

\* line 172: after a reply the iteration ends (continue)
ProceedToFollowUp(replied) == ~replied

\* a slip: the result of send_email is ignored
RecordSend_always(success) == TRUE

\* lines 132 and 190: the status is updated only after a successful send
RecordSend(success) == success

\* a slip that is none: a lock that admits one run at a time
RunAllowed_ifAlone(otherpc) == otherpc = "idle"

\* __init__ and _load_state (lines 18-56) take no lock and look for no other
\* process: a run starts whatever another process does
RunAllowed(otherpc) == TRUE

\* a slip: the finally clause is missing
FinallySave_missing(f, ls, outcome) == f

\* run_workflow's finally clause (lines 249-251): self._save_state()
FinallySave(f, ls, outcome) == _save_state(f, ls, outcome)

\* the last step of a run that reached its finally clause
EndStep(save) == [NoStep EXCEPT !.op = "end", !.saved = save]

\* main(): OrchestratorAgent() loads the state file, run_workflow fetches the
\* leads; with no leads it returns at once, through the finally clause
StartRunOn(lists) ==
  /\ pc = "idle"
  /\ RunAllowed(other.pc)
  /\ UNCHANGED other
  /\ \E leads \in lists, save \in SaveOutcomes :
       LET loaded == _load_state(file)
       IN  IF leads = << >>
           THEN /\ file' = FinallySave(file, loaded, save)
                /\ ProcessGone
                /\ last' = EndStep(save)
           ELSE /\ file' = file
                /\ pc' = "A"
                /\ lead_status' = loaded
                /\ all_leads' = leads
                /\ i' = 1
                /\ items' = << >>
                /\ j' = 0
                /\ run_log' = EmptyLog
                /\ last' = NoStep
  /\ UNCHANGED <<now, recording, detail, initial_sent, terminal_seen>>

\* an exception raised inside a loop is caught nowhere in the loop: it leaves
\* run_workflow through "except: raise" and the finally clause (the final
\* save), and main() exits
Raise(step) ==
  /\ \E save \in SaveOutcomes :
       /\ file' = FinallySave(file, lead_status, save)
       /\ last' = [step EXCEPT !.saved = save]
  /\ ProcessGone
  /\ UNCHANGED <<now, recording, detail, initial_sent, terminal_seen>>

StartRun == StartRunOn(LeadLists)

\* one iteration of the loop of _process_new_leads
ProcessNewLead ==
  /\ pc = "A"
  /\ i <= Len(all_leads)
  /\ UNCHANGED other
  /\ LET lead == all_leads[i]
         email == lead.email
         stored == Get(lead_status, email)
         status == StatusOf(lead_status, email)
         new == IsPending(status)
         draft == draft_initial_email(lead)
         tried == new /\ DraftUsable(draft)
         genuine == {"company", "firstName", "email"} \subseteq DOMAIN lead
     IN  IF ~IsDict(stored)
         THEN Raise([NoStep EXCEPT !.op = "A", !.email = email,
                                   !.record = stored, !.raised = TRUE])
         ELSE
         /\ \E gmail \in IF tried THEN GmailOutcomes ELSE {"no_service"} :
           LET success == tried /\ send_email(gmail, email, draft.subject, draft.body)
               record == tried /\ RecordSend(success)
               updated == IF record
                          THEN SetStatus(lead_status, email, "INITIAL_EMAIL_SENT",
                                         isoformat(now))
                          ELSE lead_status
           IN  \E save \in IF record THEN SaveOutcomes ELSE {"ok"} :
                 /\ lead_status' = updated
                 /\ file' = IF record THEN _save_state(file, updated, save) ELSE file
                 /\ initial_sent' = IF recording /\ tried /\ gmail = "sent"
                                    THEN initial_sent \cup {email} ELSE initial_sent
                 /\ run_log' = IF tried /\ gmail = "sent" /\ genuine
                               THEN [run_log EXCEPT !.initial_ok = @ \cup {email}]
                               ELSE run_log
                 /\ last' = [op |-> "A", email |-> email, before |-> status,
                             record |-> stored, raised |-> FALSE,
                             saved |-> "none",
                             composed |-> IF ~new THEN "none"
                                          ELSE IF genuine THEN "ok" ELSE "failed",
                             delivery |-> IF ~tried THEN "none"
                                          ELSE IF gmail = "sent" THEN "sent"
                                          ELSE "failed",
                             reply |-> "none", due |-> "none", query |-> "none"]
         /\ i' = i + 1
         /\ UNCHANGED <<now, pc, all_leads, items, j, recording, detail, terminal_seen>>

\* a slip: the loop of Phase B runs over the fetched leads that have a record
Snapshot_fetchedOnly(ls, leads) ==
  SelectSeq(Keys(ls), LAMBDA e : \E n \in 1..Len(leads) : leads[n].email = e)

\* line 154: list(self.lead_status.items()), whatever all_leads holds
Snapshot(ls, leads) == Keys(ls)

\* _process_new_leads returns, _process_follow_ups copies the items (line 154)
StartFollowUps ==
  /\ pc = "A"
  /\ i > Len(all_leads)
  /\ UNCHANGED other
  /\ pc' = "B"
  /\ items' = Snapshot(lead_status, all_leads)
  /\ j' = 1
  /\ last' = NoStep
  /\ run_log' = EmptyLog
  /\ UNCHANGED <<file, now, lead_status, all_leads, i, recording, detail, initial_sent,
                 terminal_seen>>

\* one iteration of the loop of _process_follow_ups; each service is asked
\* only where the code calls it
ProcessFollowUp ==
  /\ pc = "B"
  /\ j <= Len(items)
  /\ UNCHANGED other
  /\ LET email == items[j]
         data == Get(lead_status, email)
         status == StatusOf(lead_status, email)
         eligible == NeedsReconcile(data) /\ HasTimestamp(data)
         initial_sent_time == DictGet(data, "initial_sent_timestamp", Null)
     IN  IF ~IsDict(data)
         THEN Raise([NoStep EXCEPT !.op = "B", !.email = email,
                                   !.record = data, !.raised = TRUE])
         ELSE
         /\ \E search \in IF eligible THEN SearchOutcomes ELSE {"none"} :
           LET replied == eligible /\ check_for_reply(search, email, initial_sent_time)
               ls1 == IF replied
                      THEN SetStatus(lead_status, email, "REPLIED", isoformat(now))
                      ELSE lead_status
               checked == eligible /\ ProceedToFollowUp(replied)
               due == checked /\ should_send_follow_up(initial_sent_time, now)
               n == LeadIndex(all_leads, email)
               found == due /\ n # 0
           IN  \E gemini \in IF found THEN GeminiOutcomes ELSE {"error"} :
                 LET draft == IF found THEN draft_follow_up_email(all_leads[n], gemini)
                              ELSE None
                     tried == found /\ DraftUsable(draft)
                 IN  \E gmail \in IF tried THEN GmailOutcomes ELSE {"no_service"} :
                       LET success == tried /\ send_email(gmail, email, draft.subject, draft.body)
                           record == tried /\ RecordSend(success)
                           ls2 == IF record
                                  THEN SetStatus(ls1, email, "FOLLOW_UP_SENT", isoformat(now))
                                  ELSE ls1
                       IN  \E save \in IF replied \/ record THEN SaveOutcomes ELSE {"ok"} :
                             /\ lead_status' = ls2
                             /\ file' = IF replied \/ record
                                        THEN _save_state(file, ls2, save) ELSE file
                             /\ terminal_seen' = IF recording
                                  THEN terminal_seen \cup
                                    {e \in Emails : IsTerminal(StatusOf(ls2, e))}
                                  ELSE terminal_seen
                             /\ run_log' = [run_log EXCEPT
                                  !.replied = IF replied THEN @ \cup {email} ELSE @,
                                  !.follow_up_composed = IF found THEN @ \cup {email} ELSE @]
                             /\ last' = [op |-> "B", email |-> email, before |-> status,
                                  record |-> data, raised |-> FALSE,
                                  saved |-> "none",
                                  composed |-> IF ~found THEN "none"
                                               ELSE IF DraftUsable(draft) THEN "ok"
                                               ELSE "failed",
                                  delivery |-> IF ~tried THEN "none"
                                               ELSE IF gmail = "sent" THEN "sent"
                                               ELSE "failed",
                                  reply |-> IF ~eligible THEN "none"
                                            ELSE IF replied THEN "yes" ELSE "no",
                                  due |-> IF ~checked THEN "none"
                                          ELSE IF due THEN "yes" ELSE "no",
                                  query |-> IF ~(detail /\ eligible) THEN "none"
                                            ELSE QueryOutcome(search, initial_sent_time)]
         /\ j' = j + 1
         /\ UNCHANGED <<now, pc, all_leads, i, items, recording, detail, initial_sent>>

\* run_workflow's finally clause: the final save, then the process exits
FinalSave ==
  /\ pc = "B"
  /\ j > Len(items)
  /\ UNCHANGED other
  /\ \E save \in SaveOutcomes :
       /\ file' = FinallySave(file, lead_status, save)
       /\ last' = EndStep(save)
  /\ ProcessGone
  /\ UNCHANGED <<now, recording, detail, initial_sent, terminal_seen>>

\* the process is killed.  Between two iterations nothing is in progress.  A
\* kill inside an iteration, after send_email returned True and before the
\* state file is written in full, leaves the mailbox and the file as a failed
\* save (ProcessNewLead or ProcessFollowUp with "open_fails" or "write_fails")
\* followed by this action leaves them
Kill ==
  /\ pc # "idle"
  /\ UNCHANGED other
  /\ ProcessGone
  /\ last' = NoStep
  /\ UNCHANGED <<file, now, recording, detail, initial_sent, terminal_seen>>

\* the clock advances
Tick ==
  /\ now < MaxTime
  /\ now' = now + 1
  /\ UNCHANGED <<file, pc, lead_status, all_leads, i, items, j,
                 recording, detail, initial_sent, terminal_seen, run_log, last, other>>

Next ==
  \/ StartRun
  \/ ProcessNewLead
  \/ StartFollowUps
  \/ ProcessFollowUp
  \/ FinalSave
  \/ Kill
  \/ Tick

Spec == Init /\ [][Next]_vars

\* the same program, with the histories of what the mail system accepted and
\* of which records were terminal
SpecHistory == InitHistory /\ [][Next]_vars

\* the same program, started on a state file that was written by hand
SpecEdited == InitEdited /\ [][Next]_vars
\* the same, keeping in last what became of each reply query
SpecDetail == InitDetail /\ [][Next]_vars

\* the program run again and again by its scheduler, never killed, on a
\* source that keeps the lead a@x.com: every run goes on to its end, the clock
\* advances, and a delivery to that lead that is tried again and again
\* succeeds in the end
LiveLead == "a@x.com"
StableLists == {l \in LeadLists : \E n \in 1..Len(l) : l[n].email = LiveLead}
StartStableRun == StartRunOn(StableLists)
NextLive ==
  \/ StartStableRun
  \/ ProcessNewLead
  \/ StartFollowUps
  \/ ProcessFollowUp
  \/ FinalSave
  \/ Tick
Fairness ==
  /\ WF_vars(StartStableRun)
  /\ WF_vars(ProcessNewLead)
  /\ WF_vars(StartFollowUps)
  /\ WF_vars(ProcessFollowUp)
  /\ WF_vars(FinalSave)
  /\ WF_vars(Tick)
  /\ SF_vars(ProcessNewLead /\ last'.email = LiveLead /\ last'.delivery = "sent")
  /\ SF_vars(ProcessFollowUp /\ last'.email = LiveLead /\ last'.delivery = "sent")
SpecLive == Init /\ [][NextLive]_vars /\ Fairness

\* the scheduler of the machine takes the processor from one process of the
\* program and gives it to the other: between two steps of a run, the other
\* run makes its steps
Swap ==
  /\ other' = [pc |-> pc, lead_status |-> lead_status, all_leads |-> all_leads,
               i |-> i, items |-> items, j |-> j, run_log |-> run_log,
               last |-> last]
  /\ pc' = other.pc
  /\ lead_status' = other.lead_status
  /\ all_leads' = other.all_leads
  /\ i' = other.i
  /\ items' = other.items
  /\ j' = other.j
  /\ run_log' = other.run_log
  /\ last' = other.last
  /\ UNCHANGED <<file, now, recording, detail, initial_sent, terminal_seen>>

\* two processes of the program on one state file, on a source that holds
\* a@x.com, with every write of the file succeeding
SharedLists == {<<FullLead("a@x.com")>>}
Written == pc' # "idle" => _load_state(file') = lead_status'
StartSharedRun == StartRunOn(SharedLists)
NextTwo ==
  \/ StartSharedRun
  \/ ProcessNewLead /\ Written
  \/ StartFollowUps
  \/ ProcessFollowUp /\ Written
  \/ FinalSave /\ file'.kind = "json"
  \/ Tick
  \/ Swap
SpecTwo == Init /\ [][NextTwo]_vars

TypeOK ==
  /\ now \in 0..MaxTime
  /\ pc \in {"idle", "A", "B"}
  /\ file.kind \in {"missing", "corrupt", "json"}
  /\ \A e \in Emails : StatusOf(lead_status, e) \in Statuses

\* ------------------------------------------------------------ the claims
\* what a step is
IsNewLeadStep == pc = "A" /\ i' = i + 1
IsFollowUpStep == pc = "B" /\ j' = j + 1
Composes(e) == (IsNewLeadStep \/ IsFollowUpStep) /\ last'.email = e
                 /\ last'.composed # "none"
Sends(e) == (IsNewLeadStep \/ IsFollowUpStep) /\ last'.email = e
              /\ last'.delivery # "none"
Loaded == _load_state(file)
Field(ls, e, f) == Get(ls, e)[f]
Elapsed(ls, e) == now - fromisoformat(Field(ls, e, "initial_sent_timestamp"))

\* C1: over all runs on one state file, the mail system accepts at most one
\* initial email per address: no step delivers an initial email to an address
\* that an earlier step already delivered one to
C1_InitialEmailAtMostOnce ==
  [][\A e \in Emails :
       (IsNewLeadStep /\ last'.email = e /\ last'.delivery = "sent")
         => e \notin initial_sent]_vars

\* C2: in every step of Phase A and Phase B a status in lead_status stays or
\* moves along PENDING -> INITIAL_EMAIL_SENT, INITIAL_EMAIL_SENT ->
\* FOLLOW_UP_SENT, INITIAL_EMAIL_SENT -> REPLIED, FOLLOW_UP_SENT -> REPLIED, and
\* a full write of the state file moves no status of the file back along them
LegalMove(s, t) ==
  \/ s = t
  \/ <<s, t>> \in {<<"PENDING", "INITIAL_EMAIL_SENT">>,
                   <<"INITIAL_EMAIL_SENT", "FOLLOW_UP_SENT">>,
                   <<"INITIAL_EMAIL_SENT", "REPLIED">>,
                   <<"FOLLOW_UP_SENT", "REPLIED">>}
NotBack(s, t) ==
  \/ LegalMove(s, t)
  \/ s = "PENDING"
C4_NotPendingIsSkipped ==
  [][(IsNewLeadStep /\ StatusOf(lead_status, all_leads[i].email) # "PENDING") =>
       /\ ~Composes(all_leads[i].email)
       /\ ~Sends(all_leads[i].email)
       /\ lead_status' = lead_status
       /\ file' = file]_vars
C4_Witness ==
  /\ last.op = "A"
  /\ last.before \in {"FOLLOW_UP_SENT", "REPLIED"}
  /\ last.composed = "none"

\* C5: during and at the end of Phase A, every lead whose initial email was
\* composed and delivered in this run has status INITIAL_EMAIL_SENT, an
\* initial_sent_timestamp that is not later than now, and neither a
\* follow_up_sent_timestamp nor a replied_timestamp
C5_InitialSendRecorded ==
  pc = "A" =>
    \A e \in run_log.initial_ok :
      /\ StatusOf(lead_status, e) = "INITIAL_EMAIL_SENT"
      /\ HasField(lead_status, e, "initial_sent_timestamp")
      /\ fromisoformat(Field(lead_status, e, "initial_sent_timestamp")) \in 0..now
      /\ ~HasField(lead_status, e, "follow_up_sent_timestamp")
      /\ ~HasField(lead_status, e, "replied_timestamp")
C5_Witness ==
  /\ pc = "A"
  /\ i > Len(all_leads)
  /\ run_log.initial_ok = Emails
  /\ \E e \in Emails : Elapsed(lead_status, e) > 0

\* C6: in Phase B, a lead whose reply query returned true in this run is
\* REPLIED and no follow-up was composed or sent for it in this run
C6_ReplyBeforeFollowUp ==
  /\ pc = "B" =>
       \A e \in run_log.replied :
         /\ StatusOf(lead_status, e) = "REPLIED"
         /\ e \notin run_log.follow_up_composed
  /\ (last.op = "B" /\ last.reply = "yes") =>
       /\ last.before = "INITIAL_EMAIL_SENT"
       /\ last.composed = "none"
       /\ last.delivery = "none"
C6_Witness ==
  /\ pc = "B"
  /\ last.op = "B"
  /\ last.reply = "yes"
  /\ Elapsed(lead_status, last.email) >= follow_up_delay
  /\ LeadIndex(all_leads, last.email) # 0

\* C7 as claimed: for an INITIAL_EMAIL_SENT lead without a reply, the follow-up
\* is sent if and only if now - initial_sent_timestamp >= follow_up_delay
C7_SentIffDue ==
  [][(IsFollowUpStep /\ last'.reply = "no") =>
       (last'.delivery = "sent" <=> Elapsed(lead_status, items[j]) >= follow_up_delay)]_vars

\* C7 as amended: for an INITIAL_EMAIL_SENT lead without a reply, before the
\* threshold nothing is composed or sent and nothing changes; from the
\* threshold on (the threshold included) the follow-up is composed if the lead
\* is in the fetched list, sent if the composition succeeded, and recorded as
\* FOLLOW_UP_SENT exactly if the delivery succeeded
C7_FollowUpTimeGate ==
  [][(IsFollowUpStep /\ last'.reply = "no") =>
       LET e == items[j]
           isDue == Elapsed(lead_status, e) >= follow_up_delay
       IN  /\ ~isDue =>
                /\ ~Composes(e)
                /\ ~Sends(e)
                /\ lead_status' = lead_status
                /\ file' = file
           /\ isDue =>
                /\ Composes(e) <=> LeadIndex(all_leads, e) # 0
                /\ Sends(e) <=> last'.composed = "ok"
                /\ (StatusOf(lead_status', e) = "FOLLOW_UP_SENT")
                     <=> last'.delivery = "sent"]_vars
C7_Witness ==
  /\ last.op = "B"
  /\ last.delivery = "sent"
  /\ Elapsed(lead_status, last.email) = follow_up_delay
  /\ StatusOf(lead_status, last.email) = "FOLLOW_UP_SENT"

\* C8: once a record is FOLLOW_UP_SENT or REPLIED, no later step of this or a
\* later run composes or sends an email to that lead or changes its record
C8_TerminalIsFinal ==
  [][\A e \in terminal_seen :
       /\ ~Composes(e)
       /\ ~Sends(e)
       /\ pc' # "idle" /\ pc # "idle" => Get(lead_status', e) = Get(lead_status, e)]_vars

C10_FailedSendLeavesPending ==
  [][IsNewLeadStep =>
       LET e == all_leads[i].email
       IN  /\ last'.delivery = "failed" =>
                /\ lead_status' = lead_status
                /\ file' = file
                /\ pc' = "A"
                /\ StatusOf(lead_status', e) = "PENDING"
                /\ StatusOf(Loaded', e) = "PENDING"
           /\ StatusOf(lead_status, e) = "PENDING" => Composes(e) /\ Sends(e)]_vars
C10_Witness ==
  /\ last.op = "A"
  /\ last.delivery = "failed"
  /\ pc = "A"
  /\ i <= Len(all_leads)
  /\ all_leads[i].email # last.email

InFetched(e) == \E n \in 1..Len(all_leads) : all_leads[n].email = e
FieldFor(status) ==
  CASE status = "INITIAL_EMAIL_SENT" -> "initial_sent_timestamp"
    [] status = "FOLLOW_UP_SENT" -> "follow_up_sent_timestamp"
    [] OTHER -> "replied_timestamp"

\* C11: after a Phase B step on a due INITIAL_EMAIL_SENT lead without a reply
\* that is in the fetched list, a follow-up was composed; the record is
\* FOLLOW_UP_SENT with a follow_up_sent_timestamp (and otherwise as before)
\* exactly if the composition and the delivery both succeeded; if either
\* failed the record is as it was before the step: INITIAL_EMAIL_SENT with its
\* initial_sent_timestamp and no follow_up_sent_timestamp, which Phase B takes
\* up again
C11_FollowUpRecorded ==
  (last.op = "B" /\ last.due = "yes" /\ InFetched(last.email)) =>
    LET e == last.email
        both == last.composed = "ok" /\ last.delivery = "sent"
        rec == Get(lead_status, e)
    IN  /\ last.before = "INITIAL_EMAIL_SENT"
        /\ last.reply = "no"
        /\ last.composed # "none"
        /\ last.delivery # "none" <=> last.composed = "ok"
        /\ both =>
             /\ StatusOf(lead_status, e) = "FOLLOW_UP_SENT"
             /\ HasField(lead_status, e, "follow_up_sent_timestamp")
             /\ fromisoformat(rec["follow_up_sent_timestamp"]) \in 0..now
             /\ rec = DictSet(DictSet(last.record, "status", "FOLLOW_UP_SENT"),
                              "follow_up_sent_timestamp",
                              rec["follow_up_sent_timestamp"])
        /\ ~both =>
             /\ rec = last.record
             /\ StatusOf(lead_status, e) = "INITIAL_EMAIL_SENT"
             /\ ~HasField(lead_status, e, "follow_up_sent_timestamp")
             /\ NeedsReconcile(rec) /\ HasTimestamp(rec)
C11_Witness ==
  /\ last.op = "B"
  /\ last.due = "yes"
  /\ InFetched(last.email)
  /\ last.composed = "ok"
  /\ last.delivery = "failed"
  /\ StatusOf(lead_status, last.email) = "INITIAL_EMAIL_SENT"

\* C12: a run whose fetch returns no lead leaves the state file holding the
\* mapping it held before the run
C12_EmptyRunKeepsStore ==
  [][(pc = "idle" /\ pc' = "idle") => Loaded' = Loaded]_vars

\* C13: whenever a run is between two leads, the mapping in the state file
\* equals lead_status
C13_SavedBetweenLeads ==
  pc # "idle" => Loaded = lead_status

\* C14: when a run ends by a kill, the state file holds exactly the
\* transitions of the updates that run completed, which is what the next run
\* loads
C14_KilledRunKeepsUpdates ==
  [][(pc # "idle" /\ pc' = "idle" /\ file' = file) => Loaded' = lead_status]_vars

\* C15: after a save, whether it ran to its end or not, a load gives either
\* the complete mapping from before the save or the complete new mapping
C15_SaveIsAtomic ==
  [][(pc # "idle" /\ file' # file) =>
       Loaded' \in {Loaded, IF pc' = "idle" THEN lead_status ELSE lead_status'}]_vars

\* C16: a run that starts on a missing or corrupt state file is in Phase A
\* with an empty lead_status, so that every fetched lead is PENDING; and Phase
\* A composes and sends for every lead that has no record
C16_LoadNeverFails ==
  /\ (pc = "A" /\ i = 1 /\ file.kind # "json") =>
       /\ lead_status = << >>
       /\ all_leads # << >>
       /\ \A n \in 1..Len(all_leads) :
            StatusOf(lead_status, all_leads[n].email) = "PENDING"
  /\ (last.op = "A" /\ last.record = EmptyDict) =>
       /\ last.composed # "none"
       /\ last.delivery # "none"
C16_Witness ==
  /\ pc = "A"
  /\ i = Len(all_leads) + 1
  /\ Len(all_leads) = MaxLeads
  /\ file.kind = "corrupt"
  /\ last.op = "A"
  /\ last.record = EmptyDict
  /\ last.delivery = "sent"

\* C17: after an exception in the processing of one lead the run goes on
C17_RunGoesOn ==
  last.raised => pc # "idle"

\* C18: a step that changes lead_status changes one record: its status is one
\* of INITIAL_EMAIL_SENT, FOLLOW_UP_SENT, REPLIED, the timestamp field of that
\* status holds the time of the step, every other field of the record and
\* every other record is as before
C18_UpdateWritesOneTimestamp ==
  [][((IsNewLeadStep \/ IsFollowUpStep) /\ lead_status' # lead_status) =>
       \E e \in Emails :
         LET old == Get(lead_status, e)
             new == Get(lead_status', e)
             k == FieldFor(new["status"])
         IN  /\ HasKey(lead_status', e)
             /\ "status" \in DOMAIN new
             /\ new["status"] \in Statuses \ {"PENDING"}
             /\ DOMAIN new = (DOMAIN old) \cup {"status", k}
             /\ new[k] = isoformat(now)
             /\ \A f \in (DOMAIN old) \ {"status", k} : new[f] = old[f]
             /\ \A o \in Emails \ {e} :
                  /\ HasKey(lead_status', o) <=> HasKey(lead_status, o)
                  /\ Get(lead_status', o) = Get(lead_status, o)
             /\ Keys(lead_status') = IF HasKey(lead_status, e) THEN Keys(lead_status)
                                     ELSE Append(Keys(lead_status), e)]_vars
C18_Witness ==
  /\ last.op = "B"
  /\ last.reply = "yes"
  /\ Len(lead_status) = 2
  /\ DOMAIN Get(lead_status, last.email) =
       {"status", "initial_sent_timestamp", "replied_timestamp"}
  /\ \E o \in Emails \ {last.email} : StatusOf(lead_status, o) = "FOLLOW_UP_SENT"

\* C19: after a Phase B step on an INITIAL_EMAIL_SENT record without an
\* initial_sent_timestamp no reply query, composition or delivery was made,
\* the record is as before, and the run is still in Phase B
C19_MissingTimestampSkipped ==
  (/\ last.op = "B"
   /\ ~last.raised
   /\ DictGet(last.record, "status", "None") = "INITIAL_EMAIL_SENT"
   /\ "initial_sent_timestamp" \notin DOMAIN last.record) =>
    /\ last.reply = "none"
    /\ last.due = "none"
    /\ last.composed = "none"
    /\ last.delivery = "none"
    /\ Get(lead_status, last.email) = last.record
    /\ pc = "B"
C19_Witness ==
  /\ pc = "B"
  /\ j = 3
  /\ last.op = "B"
  /\ last.email = "b@x.com"
  /\ last.reply = "yes"
  /\ Get(lead_status, "a@x.com") = [status |-> "INITIAL_EMAIL_SENT"]

\* C20: after a Phase B step on a due INITIAL_EMAIL_SENT lead without a reply
\* whose address is not in the fetched list, nothing was composed or sent, the
\* record is as before, INITIAL_EMAIL_SENT with its timestamp, and the run is
\* still in Phase B
C20_NotFetchedIsSkipped ==
  (/\ last.op = "B"
   /\ last.due = "yes"
   /\ \A n \in 1..Len(all_leads) : all_leads[n].email # last.email) =>
    /\ last.before = "INITIAL_EMAIL_SENT"
    /\ last.composed = "none"
    /\ last.delivery = "none"
    /\ Get(lead_status, last.email) = last.record
    /\ NeedsReconcile(last.record) /\ HasTimestamp(last.record)
    /\ pc = "B"
C20_Witness ==
  /\ last.op = "B"
  /\ last.due = "yes"
  /\ all_leads # << >>
  /\ \A n \in 1..Len(all_leads) : all_leads[n].email # last.email
  /\ StatusOf(lead_status, last.email) = "INITIAL_EMAIL_SENT"

\* C21: a run that ends by an exception, and a run that ends normally, makes
\* the final save of lead_status before the process is gone: when that save
\* succeeds the state file holds lead_status as the run left it
C21_FinalSaveAlways ==
  [][/\ (pc # "idle" /\ pc' = "idle" /\ last'.op # "none") =>
          /\ last'.raised \/ last'.op = "end"
          /\ last'.saved # "none"
          /\ last'.saved = "ok" => Loaded' = lead_status
     /\ (pc = "idle" /\ last'.op = "end") =>
          /\ last'.saved # "none"
          /\ last'.saved = "ok" => (file'.kind = "json" /\ Loaded' = Loaded)]_vars
C21_Witness ==
  /\ pc = "idle"
  /\ last.raised
  /\ last.op = "B"
  /\ last.saved = "ok"
  /\ \E e \in Emails : StatusOf(Loaded, e) = "REPLIED"

\* C22: Phase A takes the fetched leads one by one in their order; Phase B
\* starts only after the last of them, on the keys of every record lead_status
\* holds then, takes them one by one, and makes the reply query for each one
\* that is INITIAL_EMAIL_SENT
C22_PhaseAThenPhaseB ==
  /\ last.op = "A" =>
       /\ pc = "A"
       /\ i \in 2..(Len(all_leads) + 1)
       /\ last.email = all_leads[i - 1].email
  /\ pc = "B" =>
       /\ all_leads # << >>
       /\ i = Len(all_leads) + 1
       /\ items = Keys(lead_status)
       /\ j \in 1..(Len(items) + 1)
  /\ last.op = "B" =>
       /\ pc = "B"
       /\ j >= 2
       /\ last.email = items[j - 1]
       /\ last.before = "INITIAL_EMAIL_SENT" => last.reply # "none"
C22_Witness ==
  /\ pc = "B"
  /\ Len(items) = 2
  /\ j = 3
  /\ last.op = "B"
  /\ last.reply = "no"
  /\ InFetched(last.email)
  /\ Elapsed(lead_status, last.email) = 0
  /\ \E e \in Emails : HasKey(lead_status, e) /\ ~InFetched(e)

\* C23: with runs recurring, the clock advancing, a@x.com in every fetched
\* list and deliveries succeeding in the end, a@x.com is eventually
\* FOLLOW_UP_SENT or REPLIED, or its initial email is in the state file with a
\* time from which the follow-up is not due before the clock's bound
TooLateToBeDue(ls, e) ==
  /\ HasField(ls, e, "initial_sent_timestamp")
  /\ fromisoformat(Field(ls, e, "initial_sent_timestamp")) + follow_up_delay > MaxTime
C23_EventuallyTerminal ==
  <>(\/ IsTerminal(StatusOf(lead_status, LiveLead))
     \/ IsTerminal(StatusOf(Loaded, LiveLead))
     \/ TooLateToBeDue(Loaded, LiveLead))

KeySet(ls) == {ls[n].email : n \in 1..Len(ls)}
C26_NothingPreventsSecondRun ==
  pc = "idle" => ENABLED StartSharedRun
\* both runs have delivered the initial email to a@x.com, and the write of
\* this run has replaced the record the other run had written
C26_Witness ==
  /\ pc = "A"
  /\ other.pc = "A"
  /\ last.op = "A" /\ last.email = "a@x.com" /\ last.delivery = "sent"
  /\ other.last.op = "A" /\ other.last.email = "a@x.com"
  /\ other.last.delivery = "sent"
  /\ Loaded = lead_status
  /\ Get(other.lead_status, "a@x.com") # Get(Loaded, "a@x.com")

\* C27: starting from no state file, every record in lead_status and in the
\* state file has a status, which is not PENDING, and exactly the timestamp
\* fields of its status: INITIAL_EMAIL_SENT has initial_sent_timestamp only,
\* FOLLOW_UP_SENT has initial_sent_timestamp and follow_up_sent_timestamp,
\* REPLIED has initial_sent_timestamp and replied_timestamp
ShapeOf(status) ==
  CASE status = "INITIAL_EMAIL_SENT" -> {"status", "initial_sent_timestamp"}
    [] status = "FOLLOW_UP_SENT" ->
         {"status", "initial_sent_timestamp", "follow_up_sent_timestamp"}
    [] status = "REPLIED" ->
         {"status", "initial_sent_timestamp", "replied_timestamp"}
    [] OTHER -> {}
WellFormed(ls) ==
  \A n \in 1..Len(ls) :
    /\ "status" \in DOMAIN ls[n].data
    /\ ls[n].data["status"] \in Statuses \ {"PENDING"}
    /\ DOMAIN ls[n].data = ShapeOf(ls[n].data["status"])
    /\ \A f \in (DOMAIN ls[n].data) \ {"status"} :
         fromisoformat(ls[n].data[f]) \in 0..now
C27_RecordShape ==
  /\ WellFormed(lead_status)
  /\ WellFormed(Loaded)
C27_Witness ==
  /\ pc = "B"
  /\ j > Len(items)
  /\ \E e \in Emails : StatusOf(lead_status, e) = "FOLLOW_UP_SENT"
  /\ \E e \in Emails : StatusOf(lead_status, e) = "REPLIED"
  /\ Loaded = lead_status

\* C28: a Phase B step composes or sends a follow-up only after its own reply
\* query returned false; a reply query that failed (no mail service, error of
\* the search, unparsable timestamp) returned false: the step goes on to the
\* due check, a lead that is due and fetched gets its follow-up composed, and
\* the step does not leave the lead REPLIED
C28_FollowUpAfterNegativeQuery ==
  (last.op = "B" /\ ~last.raised) =>
    /\ (last.composed # "none" \/ last.delivery # "none") =>
          /\ last.reply = "no"
          /\ last.query \in {"empty", "failed"}
    /\ last.reply = "yes" <=> last.query = "found"
    /\ last.query = "failed" =>
          /\ last.reply = "no"
          /\ last.due # "none"
          /\ StatusOf(lead_status, last.email) # "REPLIED"
          /\ (last.due = "yes" /\ InFetched(last.email)) => last.composed # "none"
\* the reply query failed and the follow-up was delivered and recorded
C28_Witness ==
  /\ last.op = "B"
  /\ last.query = "failed"
  /\ last.delivery = "sent"
  /\ StatusOf(lead_status, last.email) = "FOLLOW_UP_SENT"

\* C29: in Phase B a tracked lead that is absent from the fetched list and
\* stands at INITIAL_EMAIL_SENT still has its reply query made, and becomes
\* REPLIED when the query returns true; no step of the run takes it to
\* FOLLOW_UP_SENT
C29_RepliedWithoutSource ==
  [][\A e \in Emails :
       (/\ pc = "B"
        /\ ~InFetched(e)
        /\ StatusOf(lead_status, e) = "INITIAL_EMAIL_SENT") =>
         /\ StatusOf(lead_status', e) # "FOLLOW_UP_SENT"
         /\ (IsFollowUpStep /\ last'.email = e) =>
               /\ HasTimestamp(Get(lead_status, e)) => last'.reply # "none"
               /\ last'.reply = "yes" <=> StatusOf(lead_status', e) = "REPLIED"
               /\ last'.composed = "none"
               /\ last'.delivery = "none"]_vars
\* a lead that is not fetched in this run has just been marked REPLIED
C29_Witness ==
  /\ pc = "B"
  /\ last.op = "B"
  /\ ~InFetched(last.email)
  /\ last.before = "INITIAL_EMAIL_SENT"
  /\ last.reply = "yes"
  /\ StatusOf(lead_status, last.email) = "REPLIED"
  /\ StatusOf(Loaded, last.email) = "REPLIED"

\* C30: a record at INITIAL_EMAIL_SENT whose initial_sent_timestamp is present
\* but no ISO-8601 value is left as it is by every step of every run: its
\* Phase B step raises nothing, its reply query and its due check both return
\* false, and no follow-up is composed or sent
Unparsable(ls, e) ==
  /\ HasKey(ls, e)
  /\ IsDict(Get(ls, e))
  /\ NeedsReconcile(Get(ls, e))
  /\ HasTimestamp(Get(ls, e))
  /\ Get(ls, e)["initial_sent_timestamp"] \notin {isoformat(t) : t \in 0..MaxTime}
C30_UnparsableStaysPut ==
  [][\A e \in Emails :
       /\ (/\ lead_status' # lead_status
           /\ Unparsable(lead_status, e) /\ pc' # "idle") =>
             Get(lead_status', e) = Get(lead_status, e)
       /\ (/\ file' # file
           /\ Unparsable(Loaded, e) /\ file'.kind = "json") =>
             Get(Loaded', e) = Get(Loaded, e)
       /\ (IsFollowUpStep /\ last'.email = e /\ Unparsable(lead_status, e)) =>
             /\ ~last'.raised
             /\ last'.reply = "no"
             /\ last'.due = "no"
             /\ last'.composed = "none"
             /\ last'.delivery = "none"
             /\ file' = file]_vars
\* the record has come through Phase B of a second run, when a follow-up
\* would be due, and the state file still holds it
C30_Witness ==
  /\ pc = "B"
  /\ last.op = "B"
  /\ last.reply = "no"
  /\ last.due = "no"
  /\ now >= follow_up_delay
  /\ Unparsable(lead_status, last.email)
  /\ Unparsable(Loaded, last.email)
  /\ InFetched(last.email)
  /\ \E e \in Emails : IsTerminal(StatusOf(Loaded, e))

====
